---- MODULE Spec2Model ----
(***************************************************************************)
(* PageRank by damped power iteration (pr.py): readLinksFile builds the    *)
(* sparse link matrix and the dangling vector from an edge list, pageRank  *)
(* iterates until the residual is <= eps or the iteration cap is reached.  *)
(*                                                                         *)
(* The vectors and the link weights are float32 arrays.  A float is a pair *)
(* <<m, e>> standing for m * 2^e, with 2^23 <= |m| < 2^24 (a 24 bit        *)
(* significand) or m = 0, e = 0; every operation rounds its exact result   *)
(* to the nearest such value, ties to the even significand.  The values    *)
(* met here are far from the ends of the exponent range.  Vectors are      *)
(* functions over 0..len-1.                                                *)
(***************************************************************************)
EXTENDS Integers, Sequences, FiniteSets, TLC

\* Largest page count, declared link count, number of input lines and number
\* of destinations on a line that the explored input files have.
MaxPages == 2
MaxLinks == 3
MaxLines == 2
MaxOutdeg == 2

----------------------------------------------------------------------------
\* float32 arithmetic

P12 == 4096
P23 == 8388608
P24 == 16777216

Abs(x) == IF x < 0 THEN -x ELSE x

Sign(x) == IF x < 0 THEN -1 ELSE 1

\* 2^k for k in 0..30
Pow2(k) ==
    <<1, 2, 4, 8, 16, 32, 64, 128, 256, 512, 1024, 2048, 4096, 8192, 16384,
      32768, 65536, 131072, 262144, 524288, 1048576, 2097152, 4194304,
      8388608, 16777216, 33554432, 67108864, 134217728, 268435456,
      536870912, 1073741824>>[k + 1]

Zero == <<0, 0>>
One == <<P23, -23>>
Inf == <<1, 1024>>
NaN == <<0, 1024>>

\* Whether the bits cut off a significand q, rem out of unit, round it up
RoundsUp(q, rem, unit) == 2 * rem > unit \/ (2 * rem = unit /\ q % 2 = 1)

\* The significand q, rounded up or not, at exponent e
Bump(q, up, e) ==
    IF ~up THEN <<q, e>>
    ELSE IF q + 1 = P24 THEN <<P23, e + 1>>
    ELSE <<q + 1, e>>

\* The number of low bits M has beyond 24, counting from k
RECURSIVE Excess(_, _)
Excess(M, k) == IF M \div Pow2(k) < P24 THEN k ELSE Excess(M, k + 1)

\* The float nearest to M * 2^e, for an integer 0 <= M < 2^30
RECURSIVE RoundMag(_, _)
RoundMag(M, e) ==
    IF M = 0 THEN Zero
    ELSE IF M < P23 THEN RoundMag(2 * M, e - 1)
    ELSE LET k == Excess(M, 0)
             q == M \div Pow2(k)
             rem == M % Pow2(k)
         IN  Bump(q, RoundsUp(q, rem, Pow2(k)), e + k)

Signed(s, x) == <<s * x[1], x[2]>>

FromInt(k) == Signed(Sign(k), RoundMag(Abs(k), 0))

FNeg(x) == <<-x[1], x[2]>>

FAbs(x) == <<Abs(x[1]), x[2]>>

\* x + y.  The operand of the smaller exponent is aligned to the other one
\* with five more bits, the bits shifted out kept as one sticky bit.
FAdd(x, y) ==
    IF x = Inf \/ y = Inf THEN Inf
    ELSE IF x[1] = 0 THEN y
    ELSE IF y[1] = 0 THEN x
    ELSE LET a == IF x[2] >= y[2] THEN x ELSE y
             b == IF x[2] >= y[2] THEN y ELSE x
             d == a[2] - b[2]
         IN  IF d >= 28 THEN a
             ELSE LET A == Abs(a[1]) * 32
                      B == IF d <= 4 THEN Abs(b[1]) * Pow2(5 - d)
                           ELSE 2 * (Abs(b[1]) \div Pow2(d - 4))
                                + (IF Abs(b[1]) % Pow2(d - 4) # 0 THEN 1 ELSE 0)
                      S == Sign(a[1]) * A + Sign(b[1]) * B
                  IN  Signed(Sign(S), RoundMag(Abs(S), a[2] - 5))

FSub(x, y) == FAdd(x, FNeg(y))

\* x * y for finite x and y: the 48 bit product of the significands, formed
\* from their 12 bit halves as H * 2^24 + L
FMul(x, y) ==
    IF x[1] = 0 \/ y[1] = 0 THEN Zero
    ELSE LET a == Abs(x[1]) \div P12
             b == Abs(x[1]) % P12
             c == Abs(y[1]) \div P12
             d == Abs(y[1]) % P12
             mid == a * d + b * c
             L0 == (mid % P12) * P12 + b * d
             H == a * c + mid \div P12 + L0 \div P24
             L == L0 % P24
             e == x[2] + y[2]
             s == Sign(x[1]) * Sign(y[1])
         IN  IF H >= P23
             THEN Signed(s, Bump(H, RoundsUp(H, L, P24), e + 24))
             ELSE LET q == 2 * H + L \div P23
                  IN  Signed(s, Bump(q, RoundsUp(q, L % P23, P23), e + 23))

\* k more bits of the quotient q, remainder r, of a division by N
RECURSIVE LongDiv(_, _, _, _)
LongDiv(q, r, N, k) ==
    IF k = 0 THEN <<q, r>>
    ELSE IF 2 * r >= N THEN LongDiv(2 * q + 1, 2 * r - N, N, k - 1)
    ELSE LongDiv(2 * q, 2 * r, N, k - 1)

\* x / y for finite x and finite y # 0
FDiv(x, y) ==
    IF x[1] = 0 THEN Zero
    ELSE LET M == Abs(x[1])
             N == Abs(y[1])
             k == IF M >= N THEN 23 ELSE 24
             qr == LongDiv(M \div N, M % N, N, k)
             s == Sign(x[1]) * Sign(y[1])
         IN  Signed(s, Bump(qr[1], RoundsUp(qr[1], qr[2], N), x[2] - y[2] - k))

FLe(x, y) ==
    IF y = Inf THEN TRUE
    ELSE IF x = Inf THEN FALSE
    ELSE IF x[1] <= 0 /\ y[1] >= 0 THEN TRUE
    ELSE IF x[1] >= 0 /\ y[1] <= 0 THEN FALSE
    ELSE IF x[1] > 0 THEN x[2] < y[2] \/ (x[2] = y[2] /\ x[1] <= y[1])
    ELSE y[2] < x[2] \/ (x[2] = y[2] /\ x[1] <= y[1])

FLt(x, y) == FLe(x, y) /\ x # y

----------------------------------------------------------------------------
\* Vectors

VLen(v) == Cardinality(DOMAIN v)

RECURSIVE SumUpTo(_, _)
SumUpTo(f, k) == IF k = 0 THEN Zero ELSE FAdd(SumUpTo(f, k - 1), f[k - 1])

\* lin.norm(v, 1)
Norm1(v) == SumUpTo([i \in DOMAIN v |-> FAbs(v[i])], VLen(v))

\* np.dot(dangle_vec, r_old), dangle_vec holding the integers 0 and 1
Dot(dv, v) ==
    SumUpTo([i \in DOMAIN v |-> IF dv[i] = 1 THEN v[i] ELSE Zero], VLen(v))

\* link_mat * r_old
MatVec(lm, v) ==
    [i \in 0..(lm.shape[1] - 1) |->
        SumUpTo([j \in DOMAIN v |-> FMul(lm.data[<<i, j>>], v[j])], VLen(v))]

----------------------------------------------------------------------------
\* State

VARIABLES
    pc,          \* position of the driver: load, then solve
    num_pages, num_links, sources, links, normadj, dangle, links_seen,
    lines_read,  \* number of lines csv.reader has yielded so far
    ret,         \* <<>> or <<value returned by readLinksFile>>
    link_mat, dangle_vec, damp, eps, max_iters,
    n, u, r, r_old, residual, iters, stop,
    result       \* <<>> or <<value returned by pageRank>>

loaderVars == <<num_pages, num_links, sources, links, normadj, dangle,
                links_seen, lines_read, ret>>
argVars == <<link_mat, dangle_vec, damp, eps, max_iters>>
solverVars == <<n, u, r, r_old, residual, iters, stop, result>>
vars == <<pc, loaderVars, argVars, solverVars>>

NoMatrix == [shape |-> <<0, 0>>, data |-> <<>>]

Init ==
    /\ pc = "start"
    /\ num_pages = 0 /\ num_links = 0
    /\ sources = <<>> /\ links = <<>> /\ normadj = <<>> /\ dangle = <<>>
    /\ links_seen = 0 /\ lines_read = 0 /\ ret = <<>>
    /\ link_mat = NoMatrix /\ dangle_vec = <<>>
    /\ damp = Zero /\ eps = Zero /\ max_iters = 0
    /\ n = 0 /\ u = <<>> /\ r = <<>> /\ r_old = <<>>
    /\ residual = Zero /\ iters = 0 /\ stop = "" /\ result = <<>>

----------------------------------------------------------------------------
\* readLinksFile

SeqsUpTo(S, k) == UNION {[1..m -> S] : m \in 0..k}

\* A line is the sequence of its fields: the source, then the destinations.
\* The lines read are the ones whose ids are all pages, and lines with one id
\* that is no page: a source too small or too large, alone or with one
\* destination, or a destination too large.
InputLines(np) ==
    {<<s>> \o ds : s \in 0..(np - 1), ds \in SeqsUpTo(0..(np - 1), MaxOutdeg)}
    \cup {<<s>> \o ds : s \in {-1, np}, ds \in {<<>>, <<0>>}}
    \cup {<<s, np>> : s \in 0..(np - 1)}

\* numpy accepts the index i of an array of length len
IndexOK(i, len) == -len <= i /\ i < len

\* the element numpy's index i denotes: a negative index counts from the end
WrapIndex(i, len) == IF i < 0 THEN i + len ELSE i

ReadHeader ==
    /\ pc = "start"
    /\ \E np \in 0..MaxPages, nl \in 0..MaxLinks :
        /\ num_pages' = np
        /\ num_links' = nl
        /\ sources' = [k \in 0..(nl - 1) |-> 0]
        /\ links' = [k \in 0..(nl - 1) |-> 0]
        /\ normadj' = [k \in 0..(nl - 1) |-> Zero]
        /\ dangle' = [k \in 0..(np - 1) |-> 1]
    /\ links_seen' = 0
    /\ pc' = "reading"
    /\ UNCHANGED <<lines_read, ret, argVars, solverVars>>

\* DangleAfterLine without the store that clears the flag
DangleAfterLine_NoClear(dv, source, outdeg) == dv

DangleAfterLine(dv, source, outdeg) ==
    IF outdeg > 0 THEN [dv EXCEPT ![WrapIndex(source, VLen(dv))] = 0] ELSE dv

\* The weight the loader gives each link of a line with outdeg destinations
LinkWeight(outdeg) == FDiv(One, FromInt(outdeg))

\* Every slot links_seen + i, i < outdeg, lies inside the arrays of length
\* declared
Fits(seen, outdeg, declared) == seen + outdeg <= declared

\* Leaving readLinksFile, by return or by exception, drops its locals
DropLocals ==
    /\ num_pages' = 0 /\ num_links' = 0
    /\ sources' = <<>> /\ links' = <<>> /\ normadj' = <<>> /\ dangle' = <<>>
    /\ links_seen' = 0 /\ lines_read' = 0

ReadLine ==
    /\ pc = "reading"
    /\ lines_read < MaxLines
    /\ \E line \in InputLines(num_pages) :
        LET source == line[1]
            outdeg == Len(line) - 1
            slot(k) == links_seen <= k /\ k < links_seen + outdeg
        IN  IF outdeg = 0
            THEN /\ pc' = "reading"
                 /\ lines_read' = lines_read + 1
                 /\ UNCHANGED <<num_pages, num_links, sources, links, normadj,
                                dangle, links_seen>>
            ELSE IF IndexOK(source, num_pages) /\ Fits(links_seen, outdeg, num_links)
            THEN /\ dangle' = DangleAfterLine(dangle, source, outdeg)
                 /\ sources' = [k \in DOMAIN sources |->
                                   IF slot(k) THEN source ELSE sources[k]]
                 /\ links' = [k \in DOMAIN links |->
                                 IF slot(k) THEN line[k - links_seen + 2] ELSE links[k]]
                 /\ normadj' = [k \in DOMAIN normadj |->
                                   IF slot(k) THEN LinkWeight(outdeg) ELSE normadj[k]]
                 /\ links_seen' = links_seen + outdeg
                 /\ lines_read' = lines_read + 1
                 /\ pc' = "reading"
                 /\ UNCHANGED <<num_pages, num_links>>
            ELSE \* dangle[source] or sources[links_seen + i] is out of bounds
                 /\ pc' = "load_IndexError"
                 /\ DropLocals
    /\ UNCHANGED <<ret, argVars, solverVars>>

\* CountOK accepting fewer links than declared
CountOK_AtMost(seen, declared) == seen <= declared

\* assert links_seen == num_links
CountOK(seen, declared) == seen = declared

\* coo_matrix refuses a row or column index outside the shape
CooIndicesOK(np, src, dst) ==
    \A k \in DOMAIN src : 0 <= src[k] /\ src[k] < np /\ 0 <= dst[k] /\ dst[k] < np

\* coo_matrix((normadj, (links, sources)), shape).tocsr(): entries that share
\* a position are added up
BuildLinkMat(np, src, dst, wgt) ==
    [shape |-> <<np, np>>,
     data |-> [ij \in (0..(np - 1)) \X (0..(np - 1)) |->
                  SumUpTo([k \in DOMAIN wgt |->
                              IF dst[k] = ij[1] /\ src[k] = ij[2] THEN wgt[k] ELSE Zero],
                          VLen(wgt))]]

EndOfFile ==
    /\ pc = "reading"
    /\ IF ~CountOK(links_seen, num_links)
       THEN ret' = <<>> /\ pc' = "load_AssertionError"
       ELSE IF ~CooIndicesOK(num_pages, sources, links)
       THEN ret' = <<>> /\ pc' = "load_ValueError"
       ELSE /\ ret' = <<[num_pages |-> num_pages,
                         link_mat |-> BuildLinkMat(num_pages, sources, links, normadj),
                         dangle |-> dangle]>>
            /\ pc' = "loaded"
    /\ DropLocals
    /\ UNCHANGED <<argVars, solverVars>>

----------------------------------------------------------------------------
\* pageRank

\* Largest iteration cap a caller passes
MaxIterCap == 3

\* Arguments a caller passes: valid ones and ones outside each precondition
\* damp: -1, 0, 11184811 * 2^-46 (about 1.6e-7), 1/2, 1, 2
\* eps: -1, 0, 2^-20, inf
\* damp and eps are Python floats (doubles).  Each value here is a float32
\* value, and with these values every double product or difference the code
\* forms before it meets a float32 array (damp * dot, 1 - damp, eps + 1) is
\* exact, so rounding it once to float32 gives what the code computes.
Half == <<P23, -24>>
DampValues == {FromInt(-1), Zero, <<11184811, -46>>, Half, One, FromInt(2)}
EpsValues == {FromInt(-1), Zero, <<P23, -43>>, Inf}
MaxItersValues == -1..MaxIterCap

\* What a caller passes: the loaded graph with any of the parameter values,
\* or, with damp 1/2, eps 0 and max_iters 1, a matrix that is not square or a
\* dangling vector with an entry too many
CallerArgs(g) ==
    {<<g.link_mat, g.dangle, d, e, mi>> :
        d \in DampValues, e \in EpsValues, mi \in MaxItersValues}
    \cup {<<[shape |-> <<g.num_pages + 1, g.num_pages>>, data |-> g.link_mat.data],
            g.dangle, Half, Zero, 1>>,
          <<g.link_mat,
            [i \in 0..g.num_pages |-> IF i < g.num_pages THEN g.dangle[i] ELSE 1],
            Half, Zero, 1>>}

\* ArgsOK without the upper bound on damp
ArgsOK_NoUpper(lm, dv, d, e, mi) ==
    /\ lm.shape[1] = lm.shape[2] /\ lm.shape[2] = VLen(dv)
    /\ FLe(Zero, d)
    /\ FLe(Zero, e)
    /\ mi >= 0

\* The four assertions at the head of pageRank
ArgsOK(lm, dv, d, e, mi) ==
    /\ lm.shape[1] = lm.shape[2] /\ lm.shape[2] = VLen(dv)
    /\ FLe(Zero, d) /\ FLe(d, One)
    /\ FLe(Zero, e)
    /\ mi >= 0

\* np.ones(n, dtype = np.float32) / n
Uniform(len) ==
    LET x == IF len = 0 THEN NaN ELSE FDiv(One, FromInt(len))
    IN  [i \in 0..(len - 1) |-> x]

\* residual = eps + 1
Sentinel(e) == FAdd(e, One)

PageRankCall ==
    /\ pc = "loaded"
    /\ \E args \in CallerArgs(ret[1]) :
        /\ link_mat' = args[1] /\ dangle_vec' = args[2]
        /\ damp' = args[3] /\ eps' = args[4] /\ max_iters' = args[5]
        /\ IF ArgsOK(args[1], args[2], args[3], args[4], args[5])
           THEN /\ n' = VLen(args[2])
                /\ u' = Uniform(VLen(args[2]))
                /\ r' = u'
                /\ r_old' = u'
                /\ residual' = Sentinel(args[4])
                /\ iters' = 0
                /\ pc' = "loop"
           ELSE /\ pc' = "AssertionError"
                /\ UNCHANGED <<n, u, r, r_old, residual, iters>>
    /\ UNCHANGED <<loaderVars, stop, result>>

\* StopTest with the two tests in the other order
StopTest_ItersFirst(res, e, it, mi) ==
    IF it = mi THEN "iters"
    ELSE IF FLe(res, e) THEN "residual"
    ELSE ""

\* StopTest that lets one iteration too many through
StopTest_OffByOne(res, e, it, mi) ==
    IF FLe(res, e) THEN "residual"
    ELSE IF it = mi + 1 THEN "iters"
    ELSE ""

\* The exit the head of the loop takes: "residual", "iters", or "" to go on
StopTest(res, e, it, mi) ==
    IF FLe(res, e) THEN "residual"
    ELSE IF it = mi THEN "iters"
    ELSE ""

LoopTest ==
    /\ pc = "loop"
    /\ IF StopTest(residual, eps, iters, max_iters) # ""
       THEN /\ stop' = StopTest(residual, eps, iters, max_iters)
            /\ pc' = "post"
       ELSE /\ stop' = stop
            /\ pc' = "step"
    /\ UNCHANGED <<loaderVars, argVars, n, u, r, r_old, residual, iters, result>>

\* r before it is normalised: dangling mass, teleport term, link term
Unnormalized(lm, dv, d, uu, ro) ==
    LET dm == FMul(d, Dot(dv, ro))
        lr == MatVec(lm, ro)
    IN  [i \in DOMAIN uu |->
            FAdd(FAdd(FMul(dm, uu[i]), FMul(FSub(One, d), uu[i])), FMul(d, lr[i]))]

\* r /= lin.norm(r, 1); a vector of zeros divided by its norm is all NaN
Normalize(v) ==
    LET nrm == Norm1(v)
    IN  IF nrm = Zero THEN [i \in DOMAIN v |-> NaN]
        ELSE [i \in DOMAIN v |-> FDiv(v[i], nrm)]

\* lin.norm raises ValueError on a vector with a NaN
Finite(v) == \A i \in DOMAIN v : v[i] # NaN

\* Residual without the absolute values
Residual_Signed(ro, rn) ==
    SumUpTo([i \in DOMAIN rn |-> FSub(ro[i], rn[i])], VLen(rn))

Residual(ro, rn) == Norm1([i \in DOMAIN rn |-> FSub(ro[i], rn[i])])

NextIters(it) == it + 1

Iterate ==
    /\ pc = "step"
    /\ iters' = NextIters(iters)
    /\ r_old' = r
    /\ r' = Normalize(Unnormalized(link_mat, dangle_vec, damp, u, r))
    /\ IF Finite(r')
       THEN residual' = Residual(r, r') /\ pc' = "loop"
       ELSE residual' = residual /\ pc' = "ValueError"
    /\ UNCHANGED <<loaderVars, argVars, n, u, stop, result>>

\* The largest float32 below 0.0001
Tolerance == <<13743895, -37>>

\* assert abs(1 - lin.norm(r, 1)) < 0.0001
PostOK(v) == FLe(FAbs(FSub(One, Norm1(v))), Tolerance)

Return ==
    /\ pc = "post"
    /\ IF PostOK(r)
       THEN /\ result' = <<[r |-> r, residual |-> residual, iters |-> iters,
                            stop |-> stop]>>
            /\ pc' = "returned"
       ELSE /\ result' = <<>>
            /\ pc' = "post_AssertionError"
    /\ UNCHANGED <<loaderVars, argVars, n, u, r, r_old, residual, iters, stop>>

----------------------------------------------------------------------------

Next ==
    \/ ReadHeader
    \/ ReadLine
    \/ EndOfFile
    \/ PageRankCall
    \/ LoopTest
    \/ Iterate
    \/ Return

Spec == Init /\ [][Next]_vars

\* Control moves from position p to one of the positions in Q
Advance(p, Q) == pc = p /\ pc' \in Q

\* pageRank runs in one sequential thread, and LoopTest, Iterate and Return
\* have no guard but the position: control does not rest at the head of the
\* loop, before an iteration or before the final assertion.
FairSpec ==
    /\ Spec
    /\ WF_pc(Advance("loop", {"step", "post"}))
    /\ WF_pc(Advance("step", {"loop", "ValueError"}))
    /\ WF_pc(Advance("post", {"returned", "post_AssertionError"}))

----------------------------------------------------------------------------
\* Properties

LoaderPcs ==
    {"start", "reading", "loaded", "load_IndexError", "load_AssertionError",
     "load_ValueError"}

\* pageRank has passed its assertions and is in or past its loop
InSolver == pc \in {"loop", "step", "post", "returned", "post_AssertionError", "ValueError"}

\* The largest float32 below 1e-6
Tol6 == <<8796093, -43>>

Near1(x) == FLe(FAbs(FSub(One, x)), Tol6)

\* C1: whenever pageRank returns, the stop reason is "residual" or "iters";
\* it is "residual" exactly when the returned residual is <= eps, also when
\* iters = max_iters holds as well, and it is "iters" only when
\* iters = max_iters and the residual is > eps.
StopReasonAgrees ==
    pc = "returned" =>
        LET res == result[1]
        IN  /\ res.stop \in {"residual", "iters"}
            /\ res.stop = "residual" <=> FLe(res.residual, eps)
            /\ res.stop = "iters" => (res.iters = max_iters /\ ~FLe(res.residual, eps))

\* pageRank returned "residual" after exactly max_iters > 0 iterations
ConvergedAtTheCap ==
    /\ pc = "returned"
    /\ result[1].stop = "residual"
    /\ result[1].iters = max_iters
    /\ max_iters > 0

IterationsCapped == InSolver => iters <= max_iters

\* C2: once pageRank has accepted its parameters it reaches the end of its
\* loop, and in every state of the loop iters <= max_iters.
SolverTerminates == []IterationsCapped /\ (pc = "loop" ~> pc = "post")

\* pageRank used up a cap of at least two iterations
CapUsedUp ==
    /\ pc = "returned"
    /\ result[1].stop = "iters"
    /\ result[1].iters = max_iters
    /\ max_iters >= 2

\* C3: with max_iters = 0 pageRank leaves its loop with iters = 0, stop =
\* "iters" and r the uniform vector, whatever eps >= 0 is.
ZeroCapKeepsStart ==
    (pc \in {"post", "returned"} /\ max_iters = 0) =>
        /\ iters = 0
        /\ stop = "iters"
        /\ r = Uniform(VLen(dangle_vec))

PreconditionViolated ==
    \/ link_mat.shape[1] # link_mat.shape[2]
    \/ link_mat.shape[2] # VLen(dangle_vec)
    \/ FLt(damp, Zero) \/ FLt(One, damp)
    \/ FLt(eps, Zero)
    \/ max_iters < 0

\* C4: a call that violates a precondition fails before the first
\* iteration: no step is performed and nothing is returned.
InvalidArgsRejected ==
    (pc \notin LoaderPcs /\ PreconditionViolated) =>
        (pc = "AssertionError" /\ iters = 0 /\ result = <<>>)

\* pageRank refused a damp above 1
DampAboveOneRefused == pc = "AssertionError" /\ FLt(One, damp)

\* C5: after every iteration r is a probability distribution, no entry
\* negative and the entries summing to 1 within 1e-6, and the assertion
\* before the return never fails.
MassConserved ==
    /\ (InSolver /\ pc # "ValueError" /\ iters >= 1) =>
            /\ \A i \in DOMAIN r : FLe(Zero, r[i])
            /\ Near1(Norm1(r))
    /\ pc # "post_AssertionError"

\* The sum of the weights of the links stored with source s
WeightFrom(s) ==
    SumUpTo([k \in DOMAIN normadj |-> IF sources[k] = s THEN normadj[k] ELSE Zero],
            VLen(normadj))

\* C6: when readLinksFile returns, the weights of the links of every source
\* that has links sum to 1 within 1e-6.
ColumnsStochastic ==
    [][(pc = "reading" /\ pc' = "loaded") =>
          \A s \in 0..(num_pages - 1) :
              (\E k \in DOMAIN sources : sources[k] = s) => Near1(WeightFrom(s))]_vars

\* C7: when readLinksFile returns, the flag of page i is 1 exactly when no
\* stored link has source i.
DanglingFlagsExact ==
    [][(pc = "reading" /\ pc' = "loaded") =>
          \A i \in 0..(num_pages - 1) :
              ret'[1].dangle[i] = 1 <=> ~(\E k \in DOMAIN sources : sources[k] = i)]_vars

\* readLinksFile returned a graph with a dangling and a linking page
MixedGraphLoaded ==
    /\ pc = "loaded"
    /\ \E i, j \in DOMAIN ret[1].dangle :
          ret[1].dangle[i] = 1 /\ ret[1].dangle[j] = 0

\* C8: readLinksFile never stores more links than declared, returns a graph
\* only when it stored exactly the declared number, and returns nothing
\* when it fails; at the end of the input a different count is an error.
EdgeCountEnforced ==
    [][/\ pc' = "reading" => links_seen' <= num_links'
       /\ (pc = "reading" /\ pc' = "loaded") =>
              (links_seen = num_links /\ Len(ret') = 1)
       /\ (pc = "reading" /\ pc' \notin {"reading", "loaded"}) => ret' = <<>>
       /\ (pc = "reading" /\ pc' \notin {"reading", "load_IndexError"}
              /\ links_seen # num_links) => pc' = "load_AssertionError"]_vars

\* The input ended with a count other than the declared one
CountMismatchRefused == pc = "load_AssertionError" /\ ret = <<>>

\* C9: on a graph of n >= 1 pages, all dangling, with max_iters >= 1,
\* pageRank returns after exactly one iteration, with stop = "residual",
\* residual 0 and the uniform vector.
AllDanglingOneIteration ==
    (/\ pc = "returned"
     /\ n >= 1
     /\ \A i \in DOMAIN dangle_vec : dangle_vec[i] = 1
     /\ \A ij \in DOMAIN link_mat.data : link_mat.data[ij] = Zero
     /\ max_iters >= 1) =>
        /\ result[1].iters = 1
        /\ result[1].stop = "residual"
        /\ result[1].residual = Zero
        /\ result[1].r = Uniform(n)

\* An iteration after the first one, with damp < 1 and a page that links
SecondOrLaterStep ==
    /\ pc = "step" /\ pc' = "loop"
    /\ iters >= 1
    /\ FLt(damp, One)
    /\ \E i \in DOMAIN dangle_vec : dangle_vec[i] = 0

\* C10 as stated: the residual an iteration computes is not negative, and
\* is below the residual of the iteration before unless it is 0.
ResidualDecreases ==
    [][(pc = "step" /\ pc' = "loop" => FLe(Zero, residual'))
       /\ (SecondOrLaterStep => (FLt(residual', residual) \/ residual' = Zero))]_vars

\* C10, amended: the residual an iteration computes is not negative.
ResidualNotNegative ==
    [][(pc = "step" /\ pc' = "loop") => FLe(Zero, residual')]_vars

\* Three iterations were run with damp < 1 on a graph with a page that
\* links, the last residual not 0
ThreeStepsRun ==
    /\ pc = "loop"
    /\ iters = 3
    /\ FLt(damp, One)
    /\ \E i \in DOMAIN dangle_vec : dangle_vec[i] = 0
    /\ residual # Zero

====
